---- MODULE Spec2Model ----
(***************************************************************************)
(* A model of the NoC simulation engine of joremmi/NoCSimulation: the 3D   *)
(* mesh topology builder, the router and link state, the fault-tolerant    *)
(* routing search and the cycle-stepped simulation loop, in both variants  *)
(* of the engine (noc_simulation.py and modified_noc_simulation.py).       *)
(*                                                                         *)
(* Units.  Python floats are modelled by scaled integers:                  *)
(*   probabilities and random.random() draws   in hundredths (0..100)      *)
(*   power_consumption                         in tenths of a watt         *)
(*   temperature                               in thousandths of a degree  *)
(* Router ids and link ids are the 0-based Python list indices.            *)
(***************************************************************************)
EXTENDS Integers, Sequences, FiniteSets, TLC

VARIABLES
    engine,              \* which module runs: "noc" or "modified"
    num_rows, num_cols, num_layers, fault_probability,
    routers,             \* Wafer3DMeshTopology.routers : router_id -> Router
    links,               \* Wafer3DMeshTopology.links   : the list of Links
    clock_cycle, total_packets_sent,
    pc,                  \* "new", "ready", "simulate", "done" or "raised"
    remaining,           \* iterations left of simulate_network's for loop
    stats,               \* the stats dict of the running simulate_network call
    packet,              \* the local variable `packet` of simulate_network
    packet_injection_rate,   \* the argument of the running simulate_network call
    call                 \* the last completed operation and what it returned

vars == <<engine, num_rows, num_cols, num_layers, fault_probability, routers,
          links, clock_cycle, total_packets_sent, pc, remaining, stats,
          packet, packet_injection_rate, call>>

topology == <<engine, num_rows, num_cols, num_layers, fault_probability>>
simulation == <<clock_cycle, total_packets_sent, remaining, stats, packet,
                packet_injection_rate>>

-----------------------------------------------------------------------------
(* Bounds of the model *)

\* createTopology is explored on grids of at most BuildMaxDim per axis
BuildMaxDim == 2
\* the routing specifications explore grids of at most RouteMaxRouters routers
RouteMaxRouters == 6
\* at most MaxFaults random draws of one call fall on the faulty side
MaxFaults == 2
\* the simulation specifications explore grids of at most SimMaxRouters routers
SimMaxRouters == 2
\* simulate_network runs for at most MaxCycles cycles in all
MaxCycles == 1
\* in the specification of all operations the caller offers packets to a
\* router that holds fewer than MaxLoad of them
MaxLoad == 1
\* the caller hands packets to a router while its loss rate is below MaxLossRate
MaxLossRate == 1
\* in the thermal specification the caller loads a router with HeatLoad packets
HeatLoad == 20
\* the caller of the noc engine's find_backup_route passes max_hops in 0..MaxHopLimit
MaxHopLimit == 3

-----------------------------------------------------------------------------
(* Program constants *)

BufferSize == 64
AmbientTemp == 25000
DefaultMaxHops == 20
\* update_state_based_on_conditions fails a router above 85 degrees
OverheatTemp == 85000
GridSide == 3

Engines == {"noc", "modified"}
\* Router.ports is a dict; Python iterates it in insertion order
Directions == <<"east", "west", "north", "south", "up", "down">>
DirectionSet == {Directions[i] : i \in 1..Len(Directions)}
\* the directions _connect_neighbors attempts, in its order
ForwardDirections == <<"east", "south", "down">>

NoLink == -1      \* a port holding None
NoRouter == -1    \* get_neighbor_router / _get_next_router_id returning None
NoRoute == [found |-> FALSE, path |-> <<>>]

\* random.random() returns a float in [0, 1): the draws the model distinguishes
LowDraw == 0
HighDraw == 50
\* the fault probabilities a topology is constructed with
FaultProbabilities == {0, 10, 100}
\* random.randint(1, 10): the packet sizes the model distinguishes
PacketSizes == {1, 10}
\* packet_injection_rate of simulate_network, at its default 0.1
DefaultInjectionRate == 10
InjectionRates == {DefaultInjectionRate}

-----------------------------------------------------------------------------
(* Coordinates *)

_get_router_index(x, y, z) == z * (num_rows * num_cols) + y * num_rows + x

\* a slip: y taken from the whole id, not from its remainder in the layer
get_router_position_whole_id(router_id) ==
    LET layer_size == num_rows * num_cols
    IN  << router_id % num_rows,
           router_id \div num_rows,
           router_id \div layer_size >>

get_router_position(router_id) ==
    LET layer_size == num_rows * num_cols
    IN  << router_id % num_rows,
           (router_id % layer_size) \div num_rows,
           router_id \div layer_size >>

_is_valid_position(x, y, z) ==
    /\ 0 <= x /\ x < num_rows
    /\ 0 <= y /\ y < num_cols
    /\ 0 <= z /\ z < num_layers

\* a slip: the neighbour's port of the same name is assigned
_get_opposite_direction_same(direction) == direction

_get_opposite_direction(direction) ==
    CASE direction = "east"  -> "west"
      [] direction = "west"  -> "east"
      [] direction = "north" -> "south"
      [] direction = "south" -> "north"
      [] direction = "up"    -> "down"
      [] direction = "down"  -> "up"

\* the (dx, dy, dz) of _connect_neighbors' directions list
ConnectOffset(direction) ==
    CASE direction = "east"  -> <<1, 0, 0>>
      [] direction = "south" -> <<0, 1, 0>>
      [] direction = "down"  -> <<0, 0, 1>>

\* np.sqrt(dx*dx + dy*dy + dz*dz), exact on the offsets used
DistanceFactor(off) ==
    LET n == off[1] * off[1] + off[2] * off[2] + off[3] * off[3]
    IN  CHOOSE r \in 0..n : r * r = n

-----------------------------------------------------------------------------
(* Router and Link objects *)

\* Router.__init__; the Router of noc_simulation.py has no power_state,
\* fan_speed or packet_loss_rate, and nothing of that engine reads them
NewRouter ==
    [ ports |-> [d \in DirectionSet |-> NoLink],
      failed |-> FALSE,
      buffer_size |-> BufferSize,
      current_buffer_usage |-> 0,
      temperature |-> AmbientTemp,
      power_consumption |-> 0,
      packet_queue |-> <<>>,
      power_state |-> "idle",
      fan_speed |-> 0,
      packet_loss_rate |-> <<0, 1>> ]

NewLink(bandwidth) ==
    [ bandwidth |-> bandwidth, utilization |-> 0, failed |-> FALSE,
      current_load |-> 0 ]

\* Link.can_transmit
can_transmit(link, packet_size) ==
    link.current_load + packet_size <= link.bandwidth * 1024

\* the stats dict simulate_network starts with
NewStats == [latency |-> <<>>, throughput |-> <<>>, dropped_packets |-> 0,
             power_consumption |-> <<>>]
\* a local variable `packet` that no assignment has bound yet
NoPacket == [bound |-> FALSE]

RouterIds == DOMAIN routers
\* self.links is a Python list: the Link of link_id l is element l + 1
LinkIds == {i - 1 : i \in DOMAIN links}
LinkOf(l) == links[l + 1]

-----------------------------------------------------------------------------
(* createTopology *)

\* the cells in the order of createTopology's loops: z outermost, x innermost
LoopCells ==
    [ k \in 1..(IF num_rows > 0 /\ num_cols > 0 /\ num_layers > 0
                THEN num_rows * num_cols * num_layers ELSE 0) |->
        << (k - 1) % num_rows,
           ((k - 1) \div num_rows) % num_cols,
           (k - 1) \div (num_rows * num_cols) >> ]

\* createTopology calls _connect_neighbors once per cell, which runs its loop
\* body once per forward direction: pass j is direction ((j-1) % 3) + 1 of
\* cell ((j-1) \div 3) + 1
NumPasses == Len(LoopCells) * Len(ForwardDirections)
PassCell(j) == LoopCells[((j - 1) \div Len(ForwardDirections)) + 1]
PassDirection(j) == ForwardDirections[((j - 1) % Len(ForwardDirections)) + 1]
PassNeighbor(j) ==
    LET c == PassCell(j)
        off == ConnectOffset(PassDirection(j))
    IN  <<c[1] + off[1], c[2] + off[2], c[3] + off[3]>>

\* the passes that reach random.random(): one draw each
Attempts ==
    { j \in 1..NumPasses :
        _is_valid_position(PassNeighbor(j)[1], PassNeighbor(j)[2], PassNeighbor(j)[3]) }

\* _connect_neighbors: whether pass j creates a Link
Connects(j, draws) ==
    /\ j \in Attempts
    /\ LET distance_factor == DistanceFactor(ConnectOffset(PassDirection(j)))
           fault_prob == fault_probability * distance_factor
       IN  draws[j] > fault_prob

\* _connect_neighbors: the two port assignments of a pass that creates a Link
PassWrites(j, router_index, direction) ==
    LET c == PassCell(j)
        n == PassNeighbor(j)
    IN  \/ /\ router_index = _get_router_index(c[1], c[2], c[3])
           /\ direction = PassDirection(j)
        \/ /\ router_index = _get_router_index(n[1], n[2], n[3])
           /\ direction = _get_opposite_direction(PassDirection(j))

\* createTopology: the routers and links after all passes have run in order.
\* A Link gets len(self.links) as its id, the number of Links created before
\* it; a port holds the Link of the last pass that assigned it.
createTopology(draws) ==
    LET total_routers == num_rows * num_cols * num_layers
        created == {j \in Attempts : Connects(j, draws)}
        link_id(j) == Cardinality({j2 \in created : j2 < j})
        writers(r, d) == {j \in created : PassWrites(j, r, d)}
        last(S) == CHOOSE j \in S : \A j2 \in S : j2 <= j
        pass_of(l) == CHOOSE j \in created : link_id(j) = l
    IN  [ routers |->
            [ r \in 0..(total_routers - 1) |->
                [ NewRouter EXCEPT !.ports =
                    [ d \in DirectionSet |->
                        IF writers(r, d) = {} THEN NoLink
                        ELSE link_id(last(writers(r, d))) ] ] ],
          links |->
            [ n \in 1..Cardinality(created) |->
                NewLink(1 \div DistanceFactor(ConnectOffset(PassDirection(pass_of(n - 1))))) ] ]

\* the draws of a run of random.random(): LowDraw at the places in low
DrawsOver(places, low) == [a \in places |-> IF a \in low THEN LowDraw ELSE HighDraw]

\* the subsets of S of at most k elements
RECURSIVE SubsetsUpTo(_, _)
SubsetsUpTo(S, k) ==
    IF k = 0 THEN {{}}
    ELSE LET smaller == SubsetsUpTo(S, k - 1)
         IN  smaller \cup {T \cup {a} : T \in smaller, a \in S}

\* createTopology() with at most max_low of its draws at LowDraw
CreateTopologyWith(max_low) ==
    /\ pc = "new"
    /\ \E low \in SubsetsUpTo(Attempts, max_low) :
         /\ LET topo == createTopology(DrawsOver(Attempts, low))
            IN  /\ routers' = topo.routers
                /\ links' = topo.links
    /\ pc' = "ready"
    /\ call' = [op |-> "createTopology"]
    /\ UNCHANGED <<topology, simulation>>

CreateTopology == CreateTopologyWith(MaxFaults)

-----------------------------------------------------------------------------
(* Routing: find_backup_route *)

\* modified_noc_simulation.py: get_neighbor_router
get_neighbor_router(router_id, direction) ==
    LET pos == get_router_position(router_id)
        x == pos[1] + (IF direction = "east" THEN 1
                       ELSE IF direction = "west" THEN -1 ELSE 0)
        y == pos[2] + (IF direction = "north" THEN -1
                       ELSE IF direction = "south" THEN 1 ELSE 0)
        z == pos[3] + (IF direction = "up" THEN 1
                       ELSE IF direction = "down" THEN -1 ELSE 0)
    IN  IF _is_valid_position(x, y, z) THEN _get_router_index(x, y, z)
        ELSE NoRouter

\* noc_simulation.py: _get_next_router_id
_get_next_router_id(current_id, direction) ==
    LET z == current_id \div (num_rows * num_cols)
        rest == current_id % (num_rows * num_cols)
        y == rest \div num_rows
        x == rest % num_rows
        off == CASE direction = "east"  -> <<1, 0, 0>>
                 [] direction = "west"  -> <<-1, 0, 0>>
                 [] direction = "north" -> <<0, -1, 0>>
                 [] direction = "south" -> <<0, 1, 0>>
                 [] direction = "up"    -> <<0, 0, -1>>
                 [] direction = "down"  -> <<0, 0, 1>>
    IN  IF _is_valid_position(x + off[1], y + off[2], z + off[3])
        THEN _get_router_index(x + off[1], y + off[2], z + off[3])
        ELSE NoRouter

\* modified: whether the search leaves `current` through port `direction`
ModifiedAdmits(current, direction, visited) ==
    LET link == routers[current].ports[direction]
    IN  /\ link # NoLink
        /\ ~LinkOf(link).failed
        /\ LET next_router == get_neighbor_router(current, direction)
           IN  /\ next_router # NoRouter
               /\ next_router \notin visited
               /\ ~routers[next_router].failed

\* modified: the for loop over current_router.ports.items(), from port i on
RECURSIVE ModifiedExpand(_, _, _, _, _)
ModifiedExpand(current, path, i, queue, visited) ==
    IF i > Len(Directions) THEN [queue |-> queue, visited |-> visited]
    ELSE IF ModifiedAdmits(current, Directions[i], visited)
         THEN LET next_router == get_neighbor_router(current, Directions[i])
              IN  ModifiedExpand(current, path, i + 1,
                                 Append(queue, <<next_router, Append(path, next_router)>>),
                                 visited \cup {next_router})
         ELSE ModifiedExpand(current, path, i + 1, queue, visited)

\* modified: one iteration of the while loop of find_backup_route
ModifiedStep(s, destination) ==
    IF s.queue = <<>> THEN [s EXCEPT !.done = TRUE, !.route = NoRoute]
    ELSE LET current == Head(s.queue)[1]
             path == Head(s.queue)[2]
         IN  IF current = destination
             THEN [s EXCEPT !.done = TRUE, !.route = [found |-> TRUE, path |-> path]]
             ELSE LET e == ModifiedExpand(current, path, 1, Tail(s.queue), s.visited)
                  IN  [s EXCEPT !.queue = e.queue, !.visited = e.visited]

\* noc: whether the search leaves `current` through port `direction`
NocAdmits(current, direction, visited) ==
    LET link == routers[current].ports[direction]
    IN  /\ link # NoLink
        /\ ~LinkOf(link).failed
        /\ LET next_router_id == _get_next_router_id(current, direction)
           IN  /\ next_router_id # NoRouter
               /\ next_router_id \notin visited
               /\ can_transmit(LinkOf(link), 1)

\* noc: the for loop over current_router.ports.items(), from port i on
RECURSIVE NocExpand(_, _, _, _, _)
NocExpand(current, path, i, queue, visited) ==
    IF i > Len(Directions) THEN queue
    ELSE IF NocAdmits(current, Directions[i], visited)
         THEN LET next_router_id == _get_next_router_id(current, Directions[i])
              IN  NocExpand(current, path, i + 1,
                            Append(queue, <<next_router_id, Append(path, next_router_id)>>),
                            visited)
         ELSE NocExpand(current, path, i + 1, queue, visited)

\* noc: one iteration of the while loop of find_backup_route
NocStep(s, destination, max_hops) ==
    IF s.queue = <<>> THEN [s EXCEPT !.done = TRUE, !.route = NoRoute]
    ELSE LET current == Head(s.queue)[1]
             path == Head(s.queue)[2]
         IN  IF Len(path) > max_hops THEN [s EXCEPT !.queue = Tail(s.queue)]
             ELSE IF current = destination
             THEN [s EXCEPT !.done = TRUE, !.route = [found |-> TRUE, path |-> path]]
             ELSE LET seen == s.visited \cup {current}
                  IN  [s EXCEPT !.queue = NocExpand(current, path, 1, Tail(s.queue), seen),
                                !.visited = seen]

\* one iteration of the while loop of the engine's find_backup_route
SearchStep(variant, s, destination, max_hops) ==
    IF variant = "modified" THEN ModifiedStep(s, destination)
    ELSE NocStep(s, destination, max_hops)

\* at most n iterations of the while loop, stopping at its return
RECURSIVE SearchRun(_, _, _, _, _)
SearchRun(variant, s, destination, max_hops, n) ==
    IF s.done \/ n = 0 THEN s
    ELSE IF n = 1 THEN SearchStep(variant, s, destination, max_hops)
    ELSE SearchRun(variant, SearchRun(variant, s, destination, max_hops, n \div 2),
                   destination, max_hops, n - (n \div 2))

\* the while loop: iterations until it returns
RECURSIVE SearchLoop(_, _, _, _, _)
SearchLoop(variant, s, destination, max_hops, n) ==
    LET after == SearchRun(variant, s, destination, max_hops, n)
    IN  IF after.done THEN after.route
        ELSE SearchLoop(variant, after, destination, max_hops, 2 * n)

\* queue = deque([(source, [source])]), visited = set()
SearchStart(source) ==
    [ queue |-> << <<source, <<source>>>> >>, visited |-> {}, done |-> FALSE,
      route |-> NoRoute ]

find_backup_route_modified(source, destination) ==
    SearchLoop("modified", SearchStart(source), destination, DefaultMaxHops, 8)

find_backup_route_noc(src_router, dst_router, max_hops) ==
    SearchLoop("noc", SearchStart(src_router), dst_router, max_hops, 8)

\* find_backup_route of the engine that runs (max_hops at its default)
find_backup_route(source, destination) ==
    IF engine = "modified" THEN find_backup_route_modified(source, destination)
    ELSE find_backup_route_noc(source, destination, DefaultMaxHops)

\* the caller asks for one route on the topology as it stands, and stops
FindBackupRoute ==
    /\ pc = "ready"
    /\ \E source \in RouterIds, destination \in RouterIds :
         call' = [ op |-> "find_backup_route", source |-> source,
                   destination |-> destination,
                   route |-> find_backup_route(source, destination) ]
    /\ pc' = "done"
    /\ UNCHANGED <<topology, routers, links, simulation>>

\* noc engine: the caller asks for one route with an explicit max_hops
FindRouteWithin ==
    /\ pc = "ready"
    /\ engine = "noc"
    /\ \E source \in RouterIds, destination \in RouterIds, max_hops \in 0..MaxHopLimit :
         call' = [ op |-> "find_backup_route(max_hops)", source |-> source,
                   destination |-> destination, max_hops |-> max_hops,
                   route |-> find_backup_route_noc(source, destination, max_hops) ]
    /\ pc' = "done"
    /\ UNCHANGED <<topology, routers, links, simulation>>

-----------------------------------------------------------------------------
(* inject_faults (modified_noc_simulation.py only) *)

\* one random draw per router, then one per link
FaultPlaces == {<<"router", r>> : r \in RouterIds} \cup {<<"link", l>> : l \in LinkIds}

inject_faults(draws) ==
    [ routers |-> [r \in RouterIds |->
                     IF draws[<<"router", r>>] < fault_probability
                     THEN [routers[r] EXCEPT !.failed = TRUE] ELSE routers[r]],
      links |-> [i \in DOMAIN links |->
                   IF draws[<<"link", i - 1>>] < fault_probability
                   THEN [links[i] EXCEPT !.failed = TRUE] ELSE links[i]] ]

\* the links createTopology left out, and the routers and links that failed
FaultCount(rs, ls) ==
    (Cardinality(Attempts) - Len(ls))
    + Cardinality({r \in DOMAIN rs : rs[r].failed})
    + Cardinality({i \in DOMAIN ls : ls[i].failed})

InjectFaults ==
    /\ pc = "ready"
    /\ engine = "modified"
    /\ \E low \in SubsetsUpTo(FaultPlaces, MaxFaults) :
         /\ LET after == inject_faults(DrawsOver(FaultPlaces, low))
            IN  /\ FaultCount(after.routers, after.links) <= MaxFaults
                /\ routers' = after.routers
                /\ links' = after.links
    /\ call' = [op |-> "inject_faults"]
    /\ UNCHANGED <<topology, simulation, pc>>

-----------------------------------------------------------------------------
(* Router operations *)

\* Packet(source_id, destination_id, creation_time, size)
Packet(source_id, destination_id, creation_time, size) ==
    [ bound |-> TRUE, source_id |-> source_id, destination_id |-> destination_id,
      creation_time |-> creation_time, size |-> size ]

\* a slip: a full buffer is told from an overfull one, not from one with room
process_packet_overfull(router, pkt) ==
    IF router.current_buffer_usage > router.buffer_size
    THEN [ret |-> FALSE, router |-> router]
    ELSE [ ret |-> TRUE,
           router |-> [router EXCEPT !.packet_queue = Append(@, pkt),
                                     !.current_buffer_usage = @ + 1,
                                     !.power_consumption = @ + pkt.size] ]

\* Router.process_packet (both engines): the return value and the router after
process_packet(router, pkt) ==
    IF router.current_buffer_usage >= router.buffer_size
    THEN [ret |-> FALSE, router |-> router]
    ELSE [ ret |-> TRUE,
           router |-> [router EXCEPT !.packet_queue = Append(@, pkt),
                                     !.current_buffer_usage = @ + 1,
                                     !.power_consumption = @ + pkt.size] ]

calculate_latency(creation_time, current_time) == current_time - creation_time

\* a slip: backpressure at 0.9 of the buffer
apply_backpressure_late(router) ==
    IF router.current_buffer_usage * 10 >= router.buffer_size * 9
    THEN [router EXCEPT !.failed = TRUE]
    ELSE router

\* Router.apply_backpressure (modified engine)
apply_backpressure(router) ==
    IF router.current_buffer_usage * 10 >= router.buffer_size * 8
    THEN [router EXCEPT !.failed = TRUE]
    ELSE router

\* packet_loss_rate is kept as a fraction <<numerator, denominator>>
LossRateAfterLoss(rate) ==
    << rate[1] * (rate[1] + rate[2]) + rate[2] * rate[2],
       rate[2] * (rate[1] + rate[2]) >>
LossRatePlus(rate, latency) == << rate[1] + latency * rate[2], rate[2] >>

\* a slip: only a failed router turns the packet away
handle_packet_unbounded(router, pkt, current_time) ==
    IF router.failed
    THEN [router EXCEPT !.packet_loss_rate = LossRateAfterLoss(@)]
    ELSE LET latency == calculate_latency(pkt.creation_time, current_time)
         IN  apply_backpressure(
                 [router EXCEPT !.current_buffer_usage = @ + 1,
                                !.packet_loss_rate = LossRatePlus(@, latency)])

\* Router.handle_packet (modified engine)
handle_packet(router, pkt, current_time) ==
    IF router.failed \/ router.current_buffer_usage >= router.buffer_size
    THEN [router EXCEPT !.packet_loss_rate = LossRateAfterLoss(@)]
    ELSE LET latency == calculate_latency(pkt.creation_time, current_time)
         IN  apply_backpressure(
                 [router EXCEPT !.current_buffer_usage = @ + 1,
                                !.packet_loss_rate = LossRatePlus(@, latency)])

\* Router.adjust_power_consumption; traffic_load in tenths (default 0.5)
adjust_power_consumption(router, traffic_load) ==
    IF router.failed THEN [router EXCEPT !.power_consumption = 0]
    ELSE IF router.power_state = "active"
         THEN [router EXCEPT !.power_consumption = 5 * traffic_load]
    ELSE IF router.power_state = "idle"
         THEN [router EXCEPT !.power_consumption = 10]
    ELSE router

\* Router.update_temperature with its default arguments: ambient 25.0 and
\* heat_transfer_coefficient 0.1; the quotient is rounded down to 0.001 degree
update_temperature(router) ==
    LET heat_generated == router.power_consumption * 50
        cooling_effect == router.fan_speed * 100
        t == router.temperature + heat_generated - cooling_effect
             - ((router.temperature - AmbientTemp) \div 10)
        fan == IF t > 70000 THEN (IF router.fan_speed + 1 < 5 THEN router.fan_speed + 1 ELSE 5)
               ELSE IF t < 60000 THEN (IF router.fan_speed - 1 > 0 THEN router.fan_speed - 1 ELSE 0)
               ELSE router.fan_speed
    IN  [router EXCEPT !.temperature = t, !.fan_speed = fan]

\* a slip: the failed flag follows the temperature in both directions
update_state_tracks_temperature(router) ==
    adjust_power_consumption(
        IF router.temperature > OverheatTemp \/ router.failed
        THEN [router EXCEPT !.failed = (router.temperature > OverheatTemp)]
        ELSE IF router.current_buffer_usage * 10 < router.buffer_size * 3
             THEN [router EXCEPT !.power_state = "idle"]
        ELSE [router EXCEPT !.power_state = "active"],
        5)

\* Router.update_state_based_on_conditions
update_state_based_on_conditions(router) ==
    adjust_power_consumption(
        IF router.temperature > OverheatTemp
        THEN [router EXCEPT !.failed = TRUE]
        ELSE IF router.current_buffer_usage * 10 < router.buffer_size * 3
             THEN [router EXCEPT !.power_state = "idle"]
        ELSE [router EXCEPT !.power_state = "active"],
        5)

\* noc engine: Router.update_thermal_model; quotients rounded down
RECURSIVE SumOf(_)
SumOf(s) == IF s = <<>> THEN 0 ELSE Head(s) + SumOf(Tail(s))

update_thermal_model(router, ambient_temp, neighboring_temps) ==
    IF neighboring_temps = <<>> THEN [router EXCEPT !.temperature = ambient_temp]
    ELSE LET mean == SumOf(neighboring_temps) \div Len(neighboring_temps)
         IN  [router EXCEPT !.temperature =
                 @ + ((mean - @) \div 2) + router.power_consumption * 10]

\* noc engine: _get_neighbor_indices, in the order of its directions list
NeighborOffsets == << <<1, 0, 0>>, <<-1, 0, 0>>, <<0, 1, 0>>, <<0, -1, 0>>,
                      <<0, 0, 1>>, <<0, 0, -1>> >>
_get_neighbor_indices(router_id) ==
    LET z == router_id \div (num_rows * num_cols)
        rest == router_id % (num_rows * num_cols)
        y == rest \div num_rows
        x == rest % num_rows
        at(i) == <<x + NeighborOffsets[i][1], y + NeighborOffsets[i][2],
                   z + NeighborOffsets[i][3]>>
        valid == SelectSeq([i \in 1..Len(NeighborOffsets) |-> at(i)],
                           LAMBDA p : _is_valid_position(p[1], p[2], p[3]))
    IN  [i \in 1..Len(valid) |-> _get_router_index(valid[i][1], valid[i][2], valid[i][3])]

-----------------------------------------------------------------------------
(* simulate_network *)

\* a slip: the traversal goes on after a router has turned the packet away
RECURSIVE AdmitAlongAll(_, _, _, _)
AdmitAlongAll(route, i, pkt, s) ==
    IF i > Len(route) THEN s
    ELSE LET res == process_packet(s.routers[route[i]], pkt)
         IN  AdmitAlongAll(route, i + 1, pkt,
                 [ routers |-> [s.routers EXCEPT ![route[i]] = res.router],
                   dropped_packets |-> s.dropped_packets + (IF res.ret THEN 0 ELSE 1),
                   results |-> Append(s.results, res.ret) ])

\* the loop `for router in route` from position i on; results lists what the
\* calls of process_packet returned
RECURSIVE AdmitAlong(_, _, _, _)
AdmitAlong(route, i, pkt, s) ==
    IF i > Len(route) THEN s
    ELSE LET res == process_packet(s.routers[route[i]], pkt)
         IN  IF ~res.ret
             THEN [s EXCEPT !.dropped_packets = @ + 1,
                            !.results = Append(@, FALSE)]
             ELSE AdmitAlong(route, i + 1, pkt,
                      [s EXCEPT !.routers[route[i]] = res.router,
                                !.results = Append(@, TRUE)])

AdmitRouteAll(rs, route, pkt, dropped_packets) ==
    AdmitAlongAll(route, 1, pkt,
        [routers |-> rs, dropped_packets |-> dropped_packets, results |-> <<>>])

\* the traversal of a found route by the packet
AdmitRoute(rs, route, pkt, dropped_packets) ==
    AdmitAlong(route, 1, pkt,
        [routers |-> rs, dropped_packets |-> dropped_packets, results |-> <<>>])

\* what the packet generation part of an iteration leaves when it sends nothing
NothingSent ==
    [ routers |-> routers, total_packets_sent |-> total_packets_sent,
      dropped_packets |-> stats.dropped_packets, packet |-> packet,
      injected |-> FALSE, route |-> NoRoute, results |-> <<>> ]

\* a slip: a routed packet is not counted as sent
SendPacket_uncounted(pkt, route, a) ==
    IF ~route.found
    THEN [NothingSent EXCEPT !.packet = pkt, !.injected = TRUE, !.route = route]
    ELSE [ routers |-> a.routers,
           total_packets_sent |-> total_packets_sent,
           dropped_packets |-> a.dropped_packets,
           packet |-> pkt, injected |-> TRUE, route |-> route,
           results |-> a.results ]

\* `if route:` and the traversal, given the result a of the traversal
SendPacket(pkt, route, a) ==
    IF ~route.found
    THEN [NothingSent EXCEPT !.packet = pkt, !.injected = TRUE, !.route = route]
    ELSE [ routers |-> a.routers,
           total_packets_sent |-> total_packets_sent + 1,
           dropped_packets |-> a.dropped_packets,
           packet |-> pkt, injected |-> TRUE, route |-> route,
           results |-> a.results ]

\* the packet and its route
RoutePacket(pkt, route) ==
    SendPacket(pkt, route, AdmitRoute(routers, route.path, pkt, stats.dropped_packets))

\* a packet generation that also injects when the draw equals the rate
InjectPacket_inclusive(draw, source, dest, size) ==
    IF ~(draw <= packet_injection_rate) \/ source = dest THEN NothingSent
    ELSE RoutePacket(Packet(source, dest, clock_cycle + 1, size),
                     find_backup_route(source, dest))

\* the packet generation part of one iteration: draw is random.random(),
\* source and dest are the random.choice results, size is random.randint(1, 10)
InjectPacket(draw, source, dest, size) ==
    IF ~(draw < packet_injection_rate) \/ source = dest THEN NothingSent
    ELSE RoutePacket(Packet(source, dest, clock_cycle + 1, size),
                     find_backup_route(source, dest))

\* total_power of the modified engine: read before the router is updated
RECURSIVE TotalPower(_, _)
TotalPower(rs, n) ==
    IF n = 0 THEN 0 ELSE rs[n - 1].power_consumption + TotalPower(rs, n - 1)

\* modified engine: update_state_based_on_conditions, then update_temperature
ModifiedUpdate(rs) ==
    [r \in DOMAIN rs |-> update_temperature(update_state_based_on_conditions(rs[r]))]

\* noc engine: the routers are updated in list order, each from the
\* temperatures its neighbours have at that moment
RECURSIVE NocUpdate(_, _)
NocUpdate(rs, n) ==
    IF n = 0 THEN rs
    ELSE LET before == NocUpdate(rs, n - 1)
             ids == _get_neighbor_indices(n - 1)
             neighboring_temps == [i \in 1..Len(ids) |-> before[ids[i]].temperature]
         IN  [before EXCEPT ![n - 1] =
                 update_thermal_model(@, AmbientTemp, neighboring_temps)]

\* modified engine: np.mean over the routers with a non-empty queue of the
\* age of `packet`.  The mean of no values is nan; a NameError is raised when
\* a value is needed and `packet` was never assigned in this call.
NotANumber == [raised |-> FALSE, nan |-> TRUE, value |-> 0]
AverageLatency(rs, pkt, now) ==
    IF \A r \in DOMAIN rs : rs[r].packet_queue = <<>> THEN NotANumber
    ELSE IF ~pkt.bound THEN [raised |-> TRUE, nan |-> FALSE, value |-> 0]
    ELSE [ raised |-> FALSE, nan |-> FALSE,
           value |-> calculate_latency(pkt.creation_time, now) ]

\* the end of an iteration of the modified engine: the latency and throughput
\* entries, or the NameError
RecordCycle(inj, updated, total_power, avg_latency) ==
    /\ clock_cycle' = clock_cycle + 1
    /\ routers' = updated
    /\ total_packets_sent' = inj.total_packets_sent
    /\ packet' = inj.packet
    /\ stats' =
         [ dropped_packets |-> inj.dropped_packets,
           power_consumption |-> Append(stats.power_consumption, total_power),
           latency |-> IF engine = "modified" /\ ~avg_latency.raised
                       THEN Append(stats.latency,
                                   [nan |-> avg_latency.nan, value |-> avg_latency.value])
                       ELSE stats.latency,
           throughput |-> IF engine = "modified" /\ ~avg_latency.raised
                          THEN Append(stats.throughput,
                                      <<inj.total_packets_sent, clock_cycle + 1>>)
                          ELSE stats.throughput ]
    /\ pc' = IF avg_latency.raised THEN "raised" ELSE "simulate"
    /\ remaining' = IF avg_latency.raised THEN 0 ELSE remaining - 1
    /\ call' = [ op |-> "cycle", injected |-> inj.injected,
                 route |-> inj.route, results |-> inj.results,
                 before |-> routers,
                 dropped_before |-> stats.dropped_packets ]

\* the power and thermal part of an iteration, given the routers after it
UpdateCycle(inj, updated) ==
    IF engine = "modified"
    THEN RecordCycle(inj, updated,
                     TotalPower(inj.routers, Cardinality(DOMAIN routers)),
                     AverageLatency(updated, inj.packet, clock_cycle + 1))
    ELSE RecordCycle(inj, updated,
                     TotalPower(updated, Cardinality(DOMAIN routers)),
                     NotANumber)

\* an iteration, given what its packet generation part has done
FinishCycle(inj) ==
    UpdateCycle(inj, IF engine = "modified" THEN ModifiedUpdate(inj.routers)
                     ELSE NocUpdate(inj.routers, Cardinality(DOMAIN routers)))

\* one iteration of the for loop of simulate_network
SimulateCycle ==
    /\ pc = "simulate"
    /\ remaining > 0
    /\ \E draw \in {LowDraw, HighDraw}, source \in RouterIds, dest \in RouterIds,
          size \in PacketSizes :
         FinishCycle(InjectPacket(draw, source, dest, size))
    /\ UNCHANGED <<topology, links, packet_injection_rate>>

\* simulate_network(num_cycles, packet_injection_rate) is entered
SimulateBeginWith(rates) ==
    /\ pc = "ready"
    /\ clock_cycle < MaxCycles
    /\ \E num_cycles \in 1..(MaxCycles - clock_cycle), rate \in rates :
         /\ remaining' = num_cycles
         /\ packet_injection_rate' = rate
    /\ stats' = NewStats
    /\ packet' = NoPacket
    /\ pc' = "simulate"
    /\ call' = [op |-> "simulate_network"]
    /\ UNCHANGED <<topology, routers, links, clock_cycle, total_packets_sent>>

SimulateBegin == SimulateBeginWith(InjectionRates)

\* simulate_network returns stats after its last iteration
SimulateReturnTo(next_pc) ==
    /\ pc = "simulate"
    /\ remaining = 0
    /\ pc' = next_pc
    /\ call' = [op |-> "return stats", stats |-> stats]
    /\ UNCHANGED <<topology, routers, links, simulation>>

-----------------------------------------------------------------------------
(* Router methods called directly on the routers of a built topology *)

\* the caller's Packets for router r, created at time 0
CallPackets(r, sizes) == {Packet(r, r, 0, size) : size \in sizes}

\* routers[r].process_packet(pkt), offered while the router holds fewer than
\* `room` packets
ProcessPacketCall(targets, sizes, room) ==
    /\ pc = "ready"
    /\ \E r \in targets \cap RouterIds :
         /\ routers[r].current_buffer_usage < room
         /\ \E pkt \in CallPackets(r, sizes) :
              LET res == process_packet(routers[r], pkt)
              IN  /\ routers' = [routers EXCEPT ![r] = res.router]
                  /\ call' = [ op |-> "process_packet", router |-> r,
                               ret |-> res.ret, before |-> routers[r] ]
    /\ UNCHANGED <<topology, links, simulation, pc>>

\* routers[r].handle_packet(pkt, clock_cycle), offered while the router holds
\* fewer than `room` packets and its packet_loss_rate is below MaxLossRate
HandlePacketCall(targets, sizes, room) ==
    /\ pc = "ready"
    /\ engine = "modified"
    /\ \E r \in targets \cap RouterIds :
         /\ routers[r].current_buffer_usage < room
         /\ routers[r].packet_loss_rate[1] < MaxLossRate * routers[r].packet_loss_rate[2]
         /\ \E pkt \in CallPackets(r, sizes) :
              /\ routers' = [routers EXCEPT ![r] = handle_packet(@, pkt, clock_cycle)]
              /\ call' = [op |-> "handle_packet", router |-> r, before |-> routers[r]]
    /\ UNCHANGED <<topology, links, simulation, pc>>

\* routers[r].apply_backpressure()
ApplyBackpressureCall ==
    /\ pc = "ready"
    /\ engine = "modified"
    /\ \E r \in RouterIds :
         /\ routers' = [routers EXCEPT ![r] = apply_backpressure(@)]
         /\ call' = [op |-> "apply_backpressure", router |-> r, before |-> routers[r]]
    /\ UNCHANGED <<topology, links, simulation, pc>>

\* routers[r].update_state_based_on_conditions()
UpdateStateCall ==
    /\ pc = "ready"
    /\ engine = "modified"
    /\ \E r \in RouterIds :
         /\ routers' = [routers EXCEPT ![r] = update_state_based_on_conditions(@)]
         /\ call' = [ op |-> "update_state_based_on_conditions", router |-> r,
                      before |-> routers[r] ]
    /\ UNCHANGED <<topology, links, simulation, pc>>

\* routers[r].update_temperature(), offered to a router that holds at least
\* min_usage packets and has not overheated yet
UpdateTemperatureCall(targets, min_usage) ==
    /\ pc = "ready"
    /\ engine = "modified"
    /\ \E r \in targets \cap RouterIds :
         /\ routers[r].current_buffer_usage >= min_usage
         /\ routers[r].temperature <= OverheatTemp
         /\ routers' = [routers EXCEPT ![r] = update_temperature(@)]
         /\ call' = [op |-> "update_temperature", router |-> r, before |-> routers[r]]
    /\ UNCHANGED <<topology, links, simulation, pc>>

-----------------------------------------------------------------------------
(* Specifications *)

\* Wafer3DMeshTopology.__init__ with the given dimensions
Constructed(dims) ==
    /\ engine \in Engines
    /\ \E d \in dims : num_rows = d[1] /\ num_cols = d[2] /\ num_layers = d[3]
    /\ fault_probability \in FaultProbabilities
    /\ routers = <<>>
    /\ links = <<>>
    /\ clock_cycle = 0
    /\ total_packets_sent = 0
    /\ pc = "new"
    /\ remaining = 0
    /\ stats = NewStats
    /\ packet = NoPacket
    /\ packet_injection_rate = DefaultInjectionRate
    /\ call = [op |-> "__init__"]

BuildDims == (1..BuildMaxDim) \X (1..BuildMaxDim) \X (1..BuildMaxDim)
RouteDims == {d \in (1..RouteMaxRouters) \X (1..RouteMaxRouters) \X (1..RouteMaxRouters) :
                d[1] * d[2] * d[3] <= RouteMaxRouters}

InitBuild == Constructed(BuildDims)
NextBuild == CreateTopology
SpecBuild == InitBuild /\ [][NextBuild]_vars

InitRoute == Constructed(RouteDims)
NextRoute == CreateTopology \/ InjectFaults \/ FindBackupRoute
SpecRoute == InitRoute /\ [][NextRoute]_vars

\* the 3x3x3 mesh of noc_simulation.py's main block, with every link created
InitGrid ==
    /\ Constructed({<<GridSide, GridSide, GridSide>>})
    /\ fault_probability = 0
CreateFullTopology == CreateTopologyWith(0)
NextGrid == CreateFullTopology \/ FindBackupRoute
SpecGrid == InitGrid /\ [][NextGrid]_vars

\* a 2x1x1 mesh whose caller fills the buffer of router 0 with packets of
\* size 1, as test_congestion_and_performance.py does, and then simulates
InitBuffer ==
    /\ Constructed({<<2, 1, 1>>})
    /\ fault_probability = 0
ProcessPacket0 == ProcessPacketCall({0}, {1}, BufferSize + 1)
HandlePacket0 == HandlePacketCall({0}, {1}, BufferSize + 1)
SimulateReturnDone == SimulateReturnTo("done")
NextBuffer ==
    \/ CreateFullTopology
    \/ ProcessPacket0
    \/ HandlePacket0
    \/ SimulateBegin
    \/ SimulateCycle
    \/ SimulateReturnDone
SpecBuffer == InitBuffer /\ [][NextBuffer]_vars

\* every operation on small meshes, in any order, a few packets per router
SimDims == {d \in (1..SimMaxRouters) \X (1..SimMaxRouters) \X (1..SimMaxRouters) :
              d[1] * d[2] * d[3] <= SimMaxRouters}
InitOps ==
    /\ Constructed(SimDims)
    /\ fault_probability = 10
ProcessPacket == ProcessPacketCall({0}, {1}, MaxLoad)
HandlePacket == HandlePacketCall({0}, {1}, MaxLoad)
SimulateReturn == SimulateReturnTo("ready")
NextOps ==
    \/ CreateTopology
    \/ InjectFaults
    \/ ProcessPacket
    \/ HandlePacket
    \/ ApplyBackpressureCall
    \/ UpdateStateCall
    \/ SimulateBegin
    \/ SimulateCycle
    \/ SimulateReturn
SpecOps == InitOps /\ [][NextOps]_vars

\* Wafer3DMeshTopology(...) with any integers as dimensions and any number as
\* fault_probability: __init__ stores its arguments as they come
ParamDimensions == {-1, 0, 1, 2}
ParamProbabilities == {-10, 0, 100, 150}
InitParams ==
    /\ engine \in Engines
    /\ num_rows \in ParamDimensions
    /\ num_cols \in ParamDimensions
    /\ num_layers \in ParamDimensions
    /\ fault_probability \in ParamProbabilities
    /\ routers = <<>>
    /\ links = <<>>
    /\ clock_cycle = 0
    /\ total_packets_sent = 0
    /\ pc = "new"
    /\ remaining = 0
    /\ stats = NewStats
    /\ packet = NoPacket
    /\ packet_injection_rate = DefaultInjectionRate
    /\ call = [op |-> "__init__"]
NextParams == CreateTopology
SpecParams == InitParams /\ [][NextParams]_vars

\* a 2x1x1 mesh of the modified engine whose caller loads router 0 with
\* packets of size 10, lets it heat up under that power, and then simulates
InitThermal ==
    /\ Constructed({<<2, 1, 1>>})
    /\ engine = "modified"
    /\ fault_probability = 0
ProcessPacketHeavy == ProcessPacketCall({0}, {10}, HeatLoad)
UpdateTemperature0 == UpdateTemperatureCall({0}, HeatLoad - 1)
NextThermal ==
    \/ CreateFullTopology
    \/ ProcessPacketHeavy
    \/ UpdateTemperature0
    \/ SimulateBegin
    \/ SimulateCycle
    \/ SimulateReturnDone
SpecThermal == InitThermal /\ [][NextThermal]_vars

\* simulate_network called with a packet_injection_rate of 0 or of 0.1 on
\* topologies whose routers may already hold packets
IdleRates == {0, DefaultInjectionRate}
InitIdle == InitOps
SimulateBeginIdle == SimulateBeginWith(IdleRates)
NextIdle ==
    \/ CreateTopology
    \/ ProcessPacket
    \/ SimulateBeginIdle
    \/ SimulateCycle
    \/ SimulateReturn
SpecIdle == InitIdle /\ [][NextIdle]_vars

\* the noc engine's find_backup_route called with an explicit max_hops
InitHops == InitRoute /\ engine = "noc"
NextHops == CreateTopology \/ FindRouteWithin
SpecHops == InitHops /\ [][NextHops]_vars

\* fresh routers of a 2x1x1 mesh of the modified engine that receive nothing
\* but handle_packet calls, as router_A of test_congestion_and_performance.py
InitPressure ==
    /\ InitBuffer
    /\ engine = "modified"
HandlePacketAny == HandlePacketCall({0, 1}, {1}, BufferSize + 1)
NextPressure == CreateFullTopology \/ HandlePacketAny
SpecPressure == InitPressure /\ [][NextPressure]_vars

-----------------------------------------------------------------------------
(* Reference notions the properties are stated with *)

\* the grid cell of a router id, by the data model's id = z*(rows*cols) + y*rows + x
CellOf(id) ==
    CHOOSE c \in (0..(num_rows - 1)) \X (0..(num_cols - 1)) \X (0..(num_layers - 1)) :
        c[3] * (num_rows * num_cols) + c[2] * num_rows + c[1] = id

\* the mesh: direction d leads from cell a to cell b
MeshStep(a, d, b) ==
    \/ d = "east"  /\ b = <<a[1] + 1, a[2], a[3]>>
    \/ d = "south" /\ b = <<a[1], a[2] + 1, a[3]>>
    \/ d = "down"  /\ b = <<a[1], a[2], a[3] + 1>>

OppositePort(d) ==
    IF d = "east" THEN "west" ELSE IF d = "south" THEN "north" ELSE "up"

\* the ports that reference link l
Holders(l) == {h \in RouterIds \X DirectionSet : routers[h[1]].ports[h[2]] = l}

\* the links that routers a and b share in mutually opposite ports
LinksBetween(a, b) ==
    { l \in LinkIds :
        \E d \in {"east", "south", "down"} :
            \/ routers[a].ports[d] = l /\ routers[b].ports[OppositePort(d)] = l
            \/ routers[b].ports[d] = l /\ routers[a].ports[OppositePort(d)] = l }

\* a hop the spec's routing may take: a shared link that is not failed and has
\* spare capacity for the probe, between two routers that are not failed
UsableHop(a, b) ==
    /\ ~routers[a].failed /\ ~routers[b].failed
    /\ \E l \in LinksBetween(a, b) : ~LinkOf(l).failed /\ can_transmit(LinkOf(l), 1)

\* the hop count of a shortest path of usable hops from a router of `frontier`
\* (n hops from the source) to destination; -1 when there is none
RECURSIVE HopsFrom(_, _, _, _)
HopsFrom(frontier, seen, destination, n) ==
    IF destination \in frontier THEN n
    ELSE IF frontier = {} THEN -1
    ELSE LET next == {b \in RouterIds \ seen : \E a \in frontier : UsableHop(a, b)}
         IN  HopsFrom(next, seen \cup next, destination, n + 1)

ShortestHops(source, destination) ==
    IF routers[source].failed THEN -1
    ELSE HopsFrom({source}, {source}, destination, 0)

Routed == call.op = "find_backup_route" /\ call.route.found

-----------------------------------------------------------------------------
(* Properties *)

\* C1: a route returned by find_backup_route contains no failed router
\* (endpoints included) and crosses no failed link.
C1_RouteAvoidsFailed ==
    Routed =>
        LET path == call.route.path
        IN  /\ \A i \in 1..Len(path) : ~routers[path[i]].failed
            /\ \A i \in 1..(Len(path) - 1) :
                 \A l \in LinksBetween(path[i], path[i + 1]) : ~LinkOf(l).failed

\* C2: the hop count of a returned route is the minimum over all paths from
\* source to destination over present, non-failed links with spare capacity
\* and non-failed routers.
C2_RouteIsShortest ==
    Routed =>
        Len(call.route.path) - 1 = ShortestHops(call.source, call.destination)

\* C3: in every reachable state, whatever the order of process_packet calls,
\* handle_packet calls and simulation cycles, every router holds between 0 and
\* buffer_size packets.
C3_BufferWithinCapacity ==
    \A r \in RouterIds :
        /\ 0 <= routers[r].current_buffer_usage
        /\ routers[r].current_buffer_usage <= routers[r].buffer_size

\* a working router with a full buffer has been handed one more packet
C3_Witness ==
    /\ call.op = "handle_packet"
    /\ ~call.before.failed
    /\ call.before.current_buffer_usage = call.before.buffer_size
    /\ routers[call.router].current_buffer_usage = BufferSize

\* C4: process_packet returns false exactly when the buffer occupancy equals
\* the buffer capacity before the call, and then no field of the router
\* changes; in every other case it returns true.
C4_AdmitRejectsExactlyWhenFull ==
    call.op = "process_packet" =>
        /\ call.ret \in BOOLEAN
        /\ (call.ret = FALSE) <=>
               (call.before.current_buffer_usage = call.before.buffer_size)
        /\ (call.ret = FALSE) => routers[call.router] = call.before

\* process_packet has turned a packet away
C4_Witness ==
    /\ call.op = "process_packet"
    /\ call.ret = FALSE
    /\ call.before.current_buffer_usage = BufferSize

\* C5: a router or link whose failed flag is true keeps it true in the next
\* state, whichever operation on the built topology takes the step.
C5_FailureIsPermanent ==
    [][ /\ \A r \in DOMAIN routers :
             routers[r].failed => (r \in DOMAIN routers' /\ routers'[r].failed)
        /\ \A i \in DOMAIN links :
             links[i].failed => (i \in DOMAIN links' /\ links'[i].failed) ]_vars

\* update_state_based_on_conditions has run on a router that had failed, in a
\* topology with a failed link
C5_Witness ==
    /\ call.op = "update_state_based_on_conditions"
    /\ call.before.failed
    /\ routers[call.router].failed
    /\ \E i \in DOMAIN links : links[i].failed

\* C6: a cycle that injects a packet for which find_backup_route finds no
\* route adds one to the dropped-packet count and raises no exception.
C6_NoRouteCountsAsDrop ==
    (call.op = "cycle" /\ call.injected /\ ~call.route.found) =>
        /\ stats.dropped_packets = call.dropped_before + 1
        /\ pc # "raised"

\* position i of the routed packet's path is a router whose buffer was full
\* when the cycle began
RejectsAt(i) ==
    LET router == call.before[call.route.path[i]]
    IN  router.current_buffer_usage >= router.buffer_size

\* C7: when a router on the path of a routed packet rejects it, the
\* dropped-packet count grows by exactly one and no router after the first
\* rejecting one receives the packet.
C7_RejectionDropsOnce ==
    ( /\ call.op = "cycle"
      /\ call.route.found
      /\ \E i \in 1..Len(call.route.path) : RejectsAt(i) )
    => LET path == call.route.path
           first == CHOOSE i \in 1..Len(path) :
                        RejectsAt(i) /\ \A j \in 1..(i - 1) : ~RejectsAt(j)
       IN  /\ stats.dropped_packets = call.dropped_before + 1
           /\ \A j \in (first + 1)..Len(path) :
                /\ routers[path[j]].packet_queue = call.before[path[j]].packet_queue
                /\ routers[path[j]].current_buffer_usage
                       = call.before[path[j]].current_buffer_usage

\* the source of a routed packet rejected it and the path goes on
C7_Witness ==
    /\ call.op = "cycle"
    /\ call.route.found
    /\ Len(call.route.path) >= 2
    /\ RejectsAt(1)
    /\ call.results = <<FALSE>>


\* C8: on the full 3x3x3 mesh with nothing failed, the route from router
\* (0,0,0) to router (2,2,2) has exactly 7 routers, in each engine variant.
C8_CornerToCorner ==
    ( /\ call.op = "find_backup_route"
      /\ num_rows = 3 /\ num_cols = 3 /\ num_layers = 3
      /\ Len(links) = 54
      /\ \A r \in RouterIds : ~routers[r].failed
      /\ \A l \in LinkIds : ~LinkOf(l).failed
      /\ CellOf(call.source) = <<0, 0, 0>>
      /\ CellOf(call.destination) = <<2, 2, 2>> )
    => (call.route.found /\ Len(call.route.path) = 7)

\* C9: after createTopology every created Link is referenced by exactly two
\* router ports: port d of a router and the opposite port of its mesh
\* neighbour in direction d.
C9_PortSymmetry ==
    pc = "ready" =>
        \A l \in LinkIds :
            /\ Cardinality(Holders(l)) = 2
            /\ \E a \in RouterIds, b \in RouterIds, d \in {"east", "south", "down"} :
                 /\ MeshStep(CellOf(a), d, CellOf(b))
                 /\ Holders(l) = {<<a, d>>, <<b, OppositePort(d)>>}

C9_Witness ==
    /\ pc = "ready"
    /\ \E r \in RouterIds :
         /\ routers[r].ports["west"] # NoLink
         /\ routers[r].ports["north"] # NoLink
         /\ routers[r].ports["up"] # NoLink

\* C10: createTopology creates rows*cols*layers routers with ids 0..N-1, and
\* id -> (x,y,z) -> id and (x,y,z) -> id -> (x,y,z) are the identity in range.
C10_IdRoundTrip ==
    pc = "ready" =>
        /\ RouterIds = 0..(num_rows * num_cols * num_layers - 1)
        /\ \A id \in RouterIds :
             LET p == get_router_position(id)
             IN  /\ 0 <= p[1] /\ p[1] < num_rows
                 /\ 0 <= p[2] /\ p[2] < num_cols
                 /\ 0 <= p[3] /\ p[3] < num_layers
                 /\ _get_router_index(p[1], p[2], p[3]) = id
        /\ \A x \in 0..(num_rows - 1), y \in 0..(num_cols - 1), z \in 0..(num_layers - 1) :
             /\ _get_router_index(x, y, z) \in RouterIds
             /\ get_router_position(_get_router_index(x, y, z)) = <<x, y, z>>

C10_Witness ==
    /\ pc = "ready"
    /\ num_rows > 1 /\ num_cols > 1 /\ num_layers > 1
    /\ Cardinality(RouterIds) = num_rows * num_cols * num_layers

\* C11: with fault_probability = 0, createTopology links every in-bounds
\* pair of +x, +y and +z neighbours, whatever values random.random() returns
\* (0.0 included).
C11_FullMeshAtZero ==
    (pc = "ready" /\ fault_probability = 0) =>
        \A a \in RouterIds, b \in RouterIds, d \in {"east", "south", "down"} :
            MeshStep(CellOf(a), d, CellOf(b)) =>
                \E l \in LinkIds :
                    /\ routers[a].ports[d] = l
                    /\ routers[b].ports[OppositePort(d)] = l

\* C12: a topology whose rows, cols or layers is not positive, or whose
\* fault_probability lies outside [0, 1], is never built: construction or
\* createTopology raises and no routers or links exist.
InvalidParameters ==
    \/ num_rows <= 0 \/ num_cols <= 0 \/ num_layers <= 0
    \/ fault_probability < 0 \/ fault_probability > 100

C12_InvalidParametersRejected ==
    InvalidParameters =>
        /\ pc \in {"new", "raised"}
        /\ routers = <<>>
        /\ links = <<>>

\* C13: at the end of every simulation cycle of the modified engine every
\* router has power_state active if and only if it holds at least 0.3 of its
\* buffer_size, and idle otherwise, whatever its temperature and failed flag.
C13_PowerStateFollowsOccupancy ==
    (call.op = "cycle" /\ pc # "raised" /\ engine = "modified") =>
        \A r \in RouterIds :
            /\ routers[r].power_state \in {"active", "idle"}
            /\ routers[r].power_state = "active"
                   <=> routers[r].current_buffer_usage * 10 >= routers[r].buffer_size * 3

\* the temperatures the neighbours of router r had when the cycle began
SnapshotTemps(r) ==
    LET ids == _get_neighbor_indices(r)
    IN  [i \in 1..Len(ids) |-> call.before[ids[i]].temperature]

\* C14: in a cycle of the noc engine every router's new temperature is
\* computed from the temperatures its neighbours had before any router was
\* updated in that cycle, so the order of the update loop does not matter.
C14_ThermalUsesSnapshot ==
    (call.op = "cycle" /\ engine = "noc") =>
        \A r \in RouterIds :
            routers[r].temperature =
                update_thermal_model(
                    [call.before[r] EXCEPT !.power_consumption = routers[r].power_consumption],
                    AmbientTemp, SnapshotTemps(r)).temperature

\* C16: when a cycle carries a packet from the first router of its route to
\* the second, the link between the two has its current_load raised by the
\* packet's size in that cycle (to be released one cycle later).
C16_LinkLoadRises ==
    ( /\ call.op = "cycle"
      /\ call.route.found
      /\ Len(call.results) >= 2 )
    => \E l \in LinksBetween(call.route.path[1], call.route.path[2]) :
           LinkOf(l).current_load >= packet.size

\* the sum, over the routers 0..n-1 whose queue is not empty, of the age of
\* the packet at the head of the queue, and the number of those routers
RECURSIVE HeadAgeSum(_)
HeadAgeSum(n) ==
    IF n = 0 THEN 0
    ELSE HeadAgeSum(n - 1)
         + (IF routers[n - 1].packet_queue = <<>> THEN 0
            ELSE clock_cycle - Head(routers[n - 1].packet_queue).creation_time)
QueuedRouters == {r \in RouterIds : routers[r].packet_queue # <<>>}

\* C17: the latency recorded for a cycle is the mean, over the routers whose
\* queue is not empty, of (current cycle - creation_time of the packet at the
\* head of that router's queue), and 0 when every queue is empty.
C17_LatencyIsMeanHeadAge ==
    (call.op = "cycle" /\ pc # "raised" /\ engine = "modified") =>
        /\ Len(stats.latency) = Len(stats.power_consumption)
        /\ LET recorded == stats.latency[Len(stats.latency)]
           IN  /\ ~recorded.nan
               /\ recorded.value * Cardinality(QueuedRouters)
                      = HeadAgeSum(Cardinality(RouterIds))
               /\ QueuedRouters = {} => recorded.value = 0

\* C18: while simulate_network runs with packet_injection_rate = 0, whatever
\* the draws, no iteration sends a packet, the dropped_packets of the
\* statistics stay 0 and no router's current_buffer_usage changes.
C18_ZeroRateInjectsNothing ==
    [][(pc = "simulate" /\ packet_injection_rate = 0) =>
          /\ total_packets_sent' = total_packets_sent
          /\ stats.dropped_packets = 0
          /\ stats'.dropped_packets = 0
          /\ \A r \in RouterIds :
                 /\ routers'[r].current_buffer_usage = routers[r].current_buffer_usage
                 /\ routers'[r].packet_queue = routers[r].packet_queue]_vars
C18_Witness ==
    /\ call.op = "return stats"
    /\ packet_injection_rate = 0
    /\ clock_cycle > 0
    /\ call.stats.dropped_packets = 0
    /\ total_packets_sent = 0
    /\ \E r \in RouterIds : routers[r].current_buffer_usage > 0

\* C19: a returned route starts at source, ends at destination, and each
\* consecutive pair of its routers is joined by an existing link that is not
\* failed and that the two routers hold in mutually opposite ports; a step
\* through 'up' or 'down' reaches the router that port's link connects.
C19_RouteFollowsLinks ==
    Routed =>
        LET path == call.route.path
        IN  /\ Len(path) >= 1
            /\ path[1] = call.source
            /\ path[Len(path)] = call.destination
            /\ \A i \in 1..(Len(path) - 1) :
                 \E l \in LinksBetween(path[i], path[i + 1]) : ~LinkOf(l).failed

\* C20: find_backup_route(source, destination, max_hops) never returns a path
\* of more than max_hops hops, returns a path whenever some path of at most
\* max_hops hops over usable links exists (exactly max_hops included), and
\* returns [source] when source = destination.
C20_RouteWithinMaxHops ==
    call.op = "find_backup_route(max_hops)" =>
        LET hops == ShortestHops(call.source, call.destination)
        IN  /\ call.route.found => Len(call.route.path) - 1 <= call.max_hops
            /\ (hops # -1 /\ hops <= call.max_hops) => call.route.found
            /\ call.source = call.destination =>
                   call.route = [found |-> TRUE, path |-> <<call.source>>]

\* C21: within a cycle of the modified engine a router's thermal update
\* precedes its failure check: at the end of every cycle every router whose
\* temperature exceeds 85 is failed, and a router that the cycle's failure
\* check has latched is one whose temperature after the cycle's thermal
\* update exceeds 85.
C21_ThermalUpdateBeforeFailureCheck ==
    (call.op = "cycle" /\ pc # "raised" /\ engine = "modified") =>
        \A r \in RouterIds :
            /\ routers[r].temperature > OverheatTemp => routers[r].failed
            /\ (routers[r].failed /\ ~call.before[r].failed)
                   => routers[r].temperature > OverheatTemp

\* C22: a handle_packet call that brings a working router to at least 0.8 of
\* its buffer_size (52 of 64) marks it failed; a handle_packet call on a
\* failed or full router leaves its occupancy and failed flag as they were;
\* so routers that receive only handle_packet calls gain exactly one packet
\* per accepted call and never hold more than 52.
C22_BackpressureOnHandlePacket ==
    /\ \A r \in RouterIds :
          routers[r].current_buffer_usage <= (routers[r].buffer_size * 8 + 9) \div 10
    /\ call.op = "handle_packet" =>
          LET before == call.before
              after == routers[call.router]
          IN  IF before.failed \/ before.current_buffer_usage >= before.buffer_size
              THEN /\ after.current_buffer_usage = before.current_buffer_usage
                   /\ after.failed = before.failed
              ELSE /\ after.current_buffer_usage = before.current_buffer_usage + 1
                   /\ after.failed
                        <=> after.current_buffer_usage * 10 >= after.buffer_size * 8
\* a router latched at 52 packets has been handed one more packet
C22_Witness ==
    /\ call.op = "handle_packet"
    /\ call.before.failed
    /\ call.before.current_buffer_usage = 52
    /\ routers[call.router].current_buffer_usage = 52
    /\ routers[call.router].failed

\* C23: the power recorded for a cycle of the modified engine is the sum over
\* all routers of power_consumption as it stands after that cycle's power
\* state recompute; in a cycle without injection every working idle router
\* contributes its idle floor of 1.0, the first cycle included.
C23_PowerRecordedAfterRecompute ==
    (call.op = "cycle" /\ engine = "modified") =>
        /\ Len(stats.power_consumption) >= 1
        /\ stats.power_consumption[Len(stats.power_consumption)]
               = TotalPower(routers, Cardinality(RouterIds))

\* C24: in every reachable state every router's packet queue holds as many
\* packets as its current_buffer_usage says, whatever the interleaving of
\* process_packet, handle_packet and simulation cycles, and no step lowers a
\* router's current_buffer_usage.
C24_QueueMatchesOccupancy ==
    /\ [](\A r \in RouterIds :
             Len(routers[r].packet_queue) = routers[r].current_buffer_usage)
    /\ [][\A r \in RouterIds :
             routers'[r].current_buffer_usage >= routers[r].current_buffer_usage]_vars

\* C25: in every state reached by simulate_network,
\* dropped_packets <= total_packets_sent <= clock_cycle: at most one packet is
\* injected per cycle, a packet is counted as sent only if a route was found,
\* and a sent packet is counted as dropped at most once.
C25_DroppedSentCycles ==
    /\ 0 <= stats.dropped_packets
    /\ stats.dropped_packets <= total_packets_sent
    /\ total_packets_sent <= clock_cycle
    /\ call.op = "cycle" =>
          /\ stats.dropped_packets - call.dropped_before \in {0, 1}
          /\ stats.dropped_packets > call.dropped_before
                 => call.injected /\ call.route.found
\* a cycle has sent a packet and dropped it, with all three counters equal
C25_Witness ==
    /\ call.op = "cycle"
    /\ call.route.found
    /\ stats.dropped_packets = 1
    /\ total_packets_sent = 1
    /\ clock_cycle = 1

====
